---- MODULE Spec2Model ----
(***************************************************************************)
(* Model of the request handler of app.py: index() validates each          *)
(* date_input value, generate_plots() fetches the element sets from the    *)
(* remote provider (get_space_track_data), splits them into three-line     *)
(* records, derives one satellite per record and builds one fragment.      *)
(* Text is modelled as a sequence of one-character strings.                *)
(***************************************************************************)
EXTENDS Integers, Sequences, FiniteSets, TLC

(* ---------------------------- bounds ----------------------------------- *)
\* Longest date_input list of a request.
MaxDates == 3
\* Largest number of lines in a payload returned by the data GET.
MaxLines == 7

(* ------------------------- text helpers -------------------------------- *)
Digits == <<"0", "1", "2", "3", "4", "5", "6", "7", "8", "9">>

IsDigit(c) == \E n \in 1..10 : Digits[n] = c

DigitVal(c) == (CHOOSE n \in 1..10 : Digits[n] = c) - 1

\* Number of consecutive digits of s starting at position p.
RECURSIVE DigitRun(_, _)
DigitRun(s, p) ==
    IF p <= Len(s) /\ IsDigit(s[p]) THEN 1 + DigitRun(s, p + 1) ELSE 0

\* Number of consecutive blanks of s starting at position p.
RECURSIVE SpaceRun(_, _)
SpaceRun(s, p) ==
    IF p <= Len(s) /\ s[p] = " " THEN 1 + SpaceRun(s, p + 1) ELSE 0

\* Decimal value of the n digits of s starting at position p.
RECURSIVE NumVal(_, _, _)
NumVal(s, p, n) ==
    IF n = 0 THEN 0 ELSE NumVal(s, p, n - 1) * 10 + DigitVal(s[p + n - 1])

Pad2(n) == <<Digits[((n \div 10) % 10) + 1], Digits[(n % 10) + 1]>>

Pad4(n) == Pad2(n \div 100) \o Pad2(n % 100)

IsLeap(y) == ((y % 4) = 0 /\ (y % 100) # 0) \/ (y % 400) = 0

DaysInMonth(y, m) ==
    IF m = 2 THEN (IF IsLeap(y) THEN 29 ELSE 28)
    ELSE IF m \in {4, 6, 9, 11} THEN 30 ELSE 31

(* ------------------ datetime.strptime / strftime ------------------------ *)
NoTime == [Y |-> 0, m |-> 0, d |-> 0, H |-> 0, M |-> 0, S |-> 0]

ValueError == [raised |-> TRUE, value |-> NoTime]

\* A one- or two-digit field of s at position p whose value lies in lo..hi,
\* followed by the separator sep (sep = "" stands for the end of the text).
Field(s, p, lo, hi, sep) ==
    LET n == DigitRun(s, p)
        v == NumVal(s, p, n)
        q == p + n
    IN  IF n \in {1, 2} /\ v >= lo /\ v <= hi
           /\ (IF sep = "" THEN q = Len(s) + 1 ELSE q <= Len(s) /\ s[q] = sep)
        THEN [ok |-> TRUE, v |-> v, next |-> q + 1]
        ELSE [ok |-> FALSE, v |-> 0, next |-> 0]

\* datetime.datetime.strptime(date_str, "%Y-%m-%d %H:%M:%S"): four year
\* digits, one or two digits for the other fields, one or more blanks
\* between date and time, nothing after the seconds; the result must be a
\* date of the calendar.
strptime(s) ==
    IF ~(DigitRun(s, 1) = 4 /\ Len(s) >= 5 /\ s[5] = "-") THEN ValueError
    ELSE
    LET Y  == NumVal(s, 1, 4)
        fm == Field(s, 6, 1, 12, "-")
    IN  IF ~fm.ok THEN ValueError ELSE
    LET fd == Field(s, fm.next, 1, 31, " ")
    IN  IF ~fd.ok THEN ValueError ELSE
    LET ph == fd.next + SpaceRun(s, fd.next)
        fH == Field(s, ph, 0, 23, ":")
    IN  IF ~fH.ok THEN ValueError ELSE
    LET fM == Field(s, fH.next, 0, 59, ":")
    IN  IF ~fM.ok THEN ValueError ELSE
    LET fS == Field(s, fM.next, 0, 59, "")
    IN  IF ~fS.ok THEN ValueError
        ELSE IF Y < 1 \/ fd.v > DaysInMonth(Y, fm.v) THEN ValueError
        ELSE [raised |-> FALSE,
              value  |-> [Y |-> Y, m |-> fm.v, d |-> fd.v,
                          H |-> fH.v, M |-> fM.v, S |-> fS.v]]

\* target_time.strftime("%Y-%m-%dT%H:%M:%SZ")
strftime_url(t) ==
    Pad4(t.Y) \o <<"-">> \o Pad2(t.m) \o <<"-">> \o Pad2(t.d) \o <<"T">>
    \o Pad2(t.H) \o <<":">> \o Pad2(t.M) \o <<":">> \o Pad2(t.S) \o <<"Z">>

\* target_time.strftime("%Y-%m-%d %H:%M:%S")
strftime_title(t) ==
    Pad4(t.Y) \o <<"-">> \o Pad2(t.m) \o <<"-">> \o Pad2(t.d) \o <<" ">>
    \o Pad2(t.H) \o <<":">> \o Pad2(t.M) \o <<":">> \o Pad2(t.S)

\* target_time.strftime('%d/%m/%Y, %H:%M:%S')
strftime_layout(t) ==
    Pad2(t.d) \o <<"/">> \o Pad2(t.m) \o <<"/">> \o Pad4(t.Y) \o <<",", " ">>
    \o Pad2(t.H) \o <<":">> \o Pad2(t.M) \o <<":">> \o Pad2(t.S)

(* ------------------------ request inputs -------------------------------- *)
\* The date_input values a request may carry: the empty value, a canonical
\* timestamp, a timestamp with one-digit fields, free text, and a
\* well-shaped timestamp that is no date of the calendar.
DateEmpty == <<>>

DateCanonical ==
    <<"2", "0", "2", "4", "-", "0", "1", "-", "0", "1", " ",
      "0", "0", ":", "0", "0", ":", "0", "0">>

DateShort ==
    <<"2", "0", "2", "3", "-", "7", "-", "4", " ",
      "5", ":", "0", "6", ":", "0", "7">>

DateText == <<"n", "o", "t", "-", "a", "-", "d", "a", "t", "e">>

DateFeb30 ==
    <<"2", "0", "2", "4", "-", "0", "2", "-", "3", "0", " ",
      "1", "2", ":", "0", "0", ":", "0", "0">>

DateInputs == {DateEmpty, DateCanonical, DateShort, DateText, DateFeb30}

\* request.args.getlist('date_input'): every list of at most MaxDates values.
RECURSIVE ListsOf(_, _)
ListsOf(S, n) ==
    IF n = 0 THEN {<<>>}
    ELSE LET shorter == ListsOf(S, n - 1)
         IN  shorter \cup {Append(l, x) : l \in {t \in shorter : Len(t) = n - 1}, x \in S}

Requests == ListsOf(DateInputs, MaxDates)

(* ---------------------- provider responses ------------------------------ *)
StatusCodes == {200, 401}

Letters == <<"A", "B", "C", "D">>

\* Line j of a three-line element listing: name line, element line 1,
\* element line 2, repeated.
LineAt(j) ==
    IF (j % 3) = 1 THEN <<"0", " ", Letters[(((j - 1) \div 3) % 4) + 1]>>
    ELSE IF (j % 3) = 2 THEN <<"1", " ", Letters[(((j - 1) \div 3) % 4) + 1]>>
    ELSE <<"2", " ", Letters[(((j - 1) \div 3) % 4) + 1]>>

\* Body text of n lines, each ended by a line feed.
RECURSIVE Body(_)
Body(n) == IF n = 0 THEN <<>> ELSE Body(n - 1) \o LineAt(n) \o <<"\n">>

\* A body of three lines whose element lines are not element lines.
GarbledBody ==
    <<"0", " ", "A", "\n", "x", "\n", "y", "\n">>

Bodies == {Body(n) : n \in 0..MaxLines} \cup {GarbledBody}

\* Outcomes of session.post(login_url, data=payload): a response with a
\* status code, or an exception of the transport (no response).
LoginOutcomes ==
    {[raised |-> FALSE, status_code |-> c, text |-> <<>>] : c \in StatusCodes}
    \cup {[raised |-> TRUE, status_code |-> 0, text |-> <<>>]}

\* Outcomes of session.get(url).
GetOutcomes ==
    {[raised |-> FALSE, status_code |-> 200, text |-> b] : b \in Bodies}
    \cup {[raised |-> FALSE, status_code |-> c, text |-> Body(3)] :
              c \in StatusCodes \ {200}}
    \cup {[raised |-> TRUE, status_code |-> 0, text |-> <<>>]}

(* -------------------- get_space_track_data ------------------------------ *)
\* str.splitlines(): the text cut at every line feed; a final line feed
\* opens no further line.
RECURSIVE SplitFrom(_, _, _)
SplitFrom(text, p, cur) ==
    IF p > Len(text) THEN (IF cur = <<>> THEN <<>> ELSE <<cur>>)
    ELSE IF text[p] = "\n" THEN <<cur>> \o SplitFrom(text, p + 1, <<>>)
    ELSE SplitFrom(text, p + 1, Append(cur, text[p]))

splitlines(text) == SplitFrom(text, 1, <<>>)

\* Faulty variant: the login status is not looked at.
LoginOk_any(resp) == TRUE

\* Faulty variant: only a server error counts as a refused login.
LoginOk_below500(resp) == resp.status_code < 500

\* login_response.status_code == 200
LoginOk(resp) == resp.status_code = 200

\* data_response.status_code == 200
DataOk(resp) == resp.status_code = 200

None == [none |-> TRUE, lines |-> <<>>]

\* The value get_space_track_data returns once the data GET has answered.
DataResult(resp) ==
    IF DataOk(resp) THEN [none |-> FALSE, lines |-> splitlines(resp.text)]
    ELSE None

(* ------------------------- generate_plots ------------------------------- *)
\* Faulty variant: data[i][1:]
StripPrefix_one(line) == SubSeq(line, 2, Len(line))

\* data[i][2:]
StripPrefix(line) == SubSeq(line, 3, Len(line))

\* Variant that stops before a partial record: range(0, len(data) - 2, 3).
RECURSIVE RecordStarts_whole(_, _)
RecordStarts_whole(p, n) ==
    IF p + 2 > n THEN <<>> ELSE <<p>> \o RecordStarts_whole(p + 3, n)

\* range(0, len(data), 3), as positions counted from 1.
RECURSIVE RecordStarts(_, _)
RecordStarts(p, n) == IF p > n THEN <<>> ELSE <<p>> \o RecordStarts(p + 3, n)

\* The loop over the record starts: each pass appends the stripped name
\* line, then element line 1, then element line 2; reading past the end of
\* data raises IndexError and leaves the lists as they are at that point.
RECURSIVE ParseLoop(_, _, _)
ParseLoop(data_, starts, acc) ==
    IF starts = <<>> THEN acc
    ELSE
    LET p  == Head(starts)
        a1 == [acc EXCEPT !.obj_names = Append(@, StripPrefix(data_[p]))]
    IN  IF p + 1 > Len(data_) THEN [a1 EXCEPT !.raised = TRUE]
        ELSE
        LET a2 == [a1 EXCEPT !.tle_line1 = Append(@, data_[p + 1])]
        IN  IF p + 2 > Len(data_) THEN [a2 EXCEPT !.raised = TRUE]
            ELSE ParseLoop(data_, Tail(starts),
                           [a2 EXCEPT !.tle_line2 = Append(@, data_[p + 2])])

ParseRecords(data_) ==
    ParseLoop(data_, RecordStarts(1, Len(data_)),
              [raised |-> FALSE, obj_names |-> <<>>,
               tle_line1 |-> <<>>, tle_line2 |-> <<>>])

\* EarthSatellite(tle_line1, tle_line2, ...): the element reader rejects a
\* pair whose lines do not carry the line numbers 1 and 2.
get_satellite(l1, l2) ==
    IF Len(l1) >= 1 /\ l1[1] = "1" /\ Len(l2) >= 1 /\ l2[1] = "2"
    THEN [raised |-> FALSE, tle |-> <<l1, l2>>]
    ELSE [raised |-> TRUE, tle |-> <<>>]

\* [get_satellite(tle_line1[i], tle_line2[i]) for i in range(len(obj_names))]
RECURSIVE DeriveAll(_, _, _)
DeriveAll(l1s, l2s, k) ==
    IF k > Len(l1s) THEN [raised |-> FALSE, satellites |-> <<>>]
    ELSE LET sat == get_satellite(l1s[k], l2s[k])
         IN  IF sat.raised THEN [raised |-> TRUE, satellites |-> <<>>]
             ELSE LET rest == DeriveAll(l1s, l2s, k + 1)
                  IN  [raised |-> rest.raised,
                       satellites |-> IF rest.raised THEN <<>>
                                      ELSE <<sat.tle>> \o rest.satellites]

\* return "<p>No data available for the selected date.</p>"
Placeholder ==
    [html |-> "<p>No data available for the selected date.</p>",
     title |-> <<>>, layout_title |-> <<>>, samples |-> 0]

\* fig.to_html(full_html=False) of the two-column figure built for
\* target_time from one sample per satellite.
ChartFragment(t, sats) ==
    [html |-> "<div>figure</div>",
     title |-> strftime_title(t),
     layout_title |-> <<"P", "l", "o", "t", "s", " ", "a", "s", " ", "o", "f", " ">>
                      \o strftime_layout(t),
     samples |-> Len(sats)]

\* Faulty variant: plot_divs.insert(0, fragment)
AppendDiv_front(divs, frag) == <<frag>> \o divs

\* plot_divs.append(fragment)
AppendDiv(divs, frag) == Append(divs, frag)

(* ------------------------------ index ----------------------------------- *)
\* jsonify({"error": ...})
ErrorMessage == "Invalid date format. Please use 'YYYY-MM-DD HH:MM:SS'."

NoResponse == [kind |-> "none", error |-> "", plot_divs |-> <<>>]

JsonError == [kind |-> "json", error |-> ErrorMessage, plot_divs |-> <<>>]

\* Faulty variant: the template is rendered without the fragments.
Page_empty(divs) == [kind |-> "html", error |-> "", plot_divs |-> <<>>]

\* render_template('index.html', plot_divs=plot_divs)
Page(divs) == [kind |-> "html", error |-> "", plot_divs |-> divs]

ServerFault == [kind |-> "fault", error |-> "", plot_divs |-> <<>>]

(* ------------------------------ state ----------------------------------- *)
VARIABLES
    date_strs,    \* the date_input values of the request
    i,            \* position in date_strs of the value index() looks at next
    pc,           \* where the request stands
    target_time,  \* the parsed timestamp generate_plots works on
    plot_divs,    \* the fragments collected so far
    data,         \* the lines returned by get_space_track_data
    parsed,       \* obj_names, tle_line1, tle_line2 of generate_plots
    satellites,   \* the satellites derived from the element lines
    response,     \* what index() answered
    fault,        \* the exception that ended the request, if any
    calls,        \* one entry per invocation of get_space_track_data
    steps         \* the parse, derive and plot steps performed, in order

vars == <<date_strs, i, pc, target_time, plot_divs, data, parsed, satellites,
          response, fault, calls, steps>>

NoParse ==
    [raised |-> FALSE, obj_names |-> <<>>, tle_line1 |-> <<>>, tle_line2 |-> <<>>]

Terminal == {"Rendered", "Error", "Fault"}

Init ==
    /\ date_strs \in Requests
    /\ i = 1
    /\ pc = "index"
    /\ target_time = NoTime
    /\ plot_divs = <<>>
    /\ data = <<>>
    /\ parsed = NoParse
    /\ satellites = <<>>
    /\ response = NoResponse
    /\ fault = "none"
    /\ calls = <<>>
    /\ steps = <<>>

\* The request ends with an exception nobody catches.
Raise(exc) ==
    /\ pc' = "Fault"
    /\ fault' = exc
    /\ response' = ServerFault

\* generate_plots returned frag: index() appends it and moves on.
ReturnFragment(frag) ==
    /\ plot_divs' = AppendDiv(plot_divs, frag)
    /\ i' = i + 1
    /\ pc' = "index"

\* The record of the running invocation of get_space_track_data.
LogNet(op, resp) ==
    [calls EXCEPT ![Len(calls)].net =
        Append(@, [op |-> op, status_code |-> resp.status_code,
                   raised |-> resp.raised, text |-> resp.text])]

LogReturn(log, result) ==
    [log EXCEPT ![Len(log)].returned = TRUE, ![Len(log)].result = result]

\* Faulty variant: the test for the sentinel is missing.
IsNone_never(result) == FALSE

\* if data is None
IsNone(result) == result.none

\* generate_plots once get_space_track_data has returned: the placeholder
\* when there is no data, the record loop otherwise.
AfterFetch(result) ==
    IF IsNone(result)
    THEN ReturnFragment(Placeholder) /\ UNCHANGED data
    ELSE /\ data' = result.lines
         /\ pc' = "parse"
         /\ UNCHANGED <<i, plot_divs>>

(* ----------------------------- actions ---------------------------------- *)
\* if not date_str: continue
Skip ==
    /\ pc = "index" /\ i <= Len(date_strs)
    /\ date_strs[i] = <<>>
    /\ i' = i + 1
    /\ UNCHANGED <<date_strs, pc, target_time, plot_divs, data, parsed,
                   satellites, response, fault, calls, steps>>

\* Faulty variant: an unparsable value is skipped like an empty one.
Reject_continue ==
    /\ pc = "index" /\ i <= Len(date_strs)
    /\ date_strs[i] # <<>>
    /\ strptime(date_strs[i]).raised
    /\ i' = i + 1
    /\ UNCHANGED <<date_strs, pc, target_time, plot_divs, data, parsed,
                   satellites, response, fault, calls, steps>>

\* except ValueError: return jsonify({"error": ...})
Reject ==
    /\ pc = "index" /\ i <= Len(date_strs)
    /\ date_strs[i] # <<>>
    /\ strptime(date_strs[i]).raised
    /\ pc' = "Error"
    /\ response' = JsonError
    /\ UNCHANGED <<date_strs, i, target_time, plot_divs, data, parsed,
                   satellites, fault, calls, steps>>

\* The value parses: generate_plots(target_time) starts and calls
\* get_space_track_data with the query URL of the timestamp.
Accept ==
    /\ pc = "index" /\ i <= Len(date_strs)
    /\ date_strs[i] # <<>>
    /\ ~strptime(date_strs[i]).raised
    /\ target_time' = strptime(date_strs[i]).value
    /\ calls' = Append(calls,
                       [k |-> i,
                        url_time |-> strftime_url(strptime(date_strs[i]).value),
                        net |-> <<>>, returned |-> FALSE, result |-> None])
    /\ pc' = "login"
    /\ UNCHANGED <<date_strs, i, plot_divs, data, parsed, satellites,
                   response, fault, steps>>

\* return render_template('index.html', plot_divs=plot_divs)
Render ==
    /\ pc = "index" /\ i > Len(date_strs)
    /\ pc' = "Rendered"
    /\ response' = Page(plot_divs)
    /\ UNCHANGED <<date_strs, i, target_time, plot_divs, data, parsed,
                   satellites, fault, calls, steps>>

\* login_response = session.post(login_url, data=payload), and what follows
\* when the login is refused: return None, and the placeholder.
Login(resp) ==
    /\ pc = "login"
    /\ IF resp.raised
       THEN /\ Raise("ConnectionError")
            /\ calls' = LogNet("POST", resp)
            /\ UNCHANGED <<i, plot_divs, data>>
       ELSE IF LoginOk(resp)
       THEN /\ pc' = "get"
            /\ calls' = LogNet("POST", resp)
            /\ UNCHANGED <<i, plot_divs, data, response, fault>>
       ELSE /\ calls' = LogReturn(LogNet("POST", resp), None)
            /\ AfterFetch(None)
            /\ UNCHANGED <<response, fault>>
    /\ UNCHANGED <<date_strs, target_time, parsed, satellites, steps>>

\* data_response = session.get(url), the return of get_space_track_data
\* and the test "if data is None" of generate_plots.
Get(resp) ==
    /\ pc = "get"
    /\ IF resp.raised
       THEN /\ Raise("ConnectionError")
            /\ calls' = LogNet("GET", resp)
            /\ UNCHANGED <<i, plot_divs, data>>
       ELSE LET result == DataResult(resp)
            IN  /\ calls' = LogReturn(LogNet("GET", resp), result)
                /\ AfterFetch(result)
                /\ UNCHANGED <<response, fault>>
    /\ UNCHANGED <<date_strs, target_time, parsed, satellites, steps>>

\* The loop "for i in range(0, len(data), 3)".
Parse ==
    /\ pc = "parse"
    /\ parsed' = ParseRecords(data)
    /\ steps' = Append(steps, [op |-> "parse", k |-> i])
    /\ IF ParseRecords(data).raised
       THEN Raise("IndexError")
       ELSE pc' = "derive" /\ UNCHANGED <<response, fault>>
    /\ UNCHANGED <<date_strs, i, target_time, plot_divs, data, satellites, calls>>

\* The list of satellites, one per parsed record.
Derive ==
    /\ pc = "derive"
    /\ steps' = Append(steps, [op |-> "derive", k |-> i])
    /\ LET r == DeriveAll(parsed.tle_line1, parsed.tle_line2, 1)
       IN  IF r.raised
           THEN Raise("ValueError") /\ UNCHANGED satellites
           ELSE /\ satellites' = r.satellites
                /\ pc' = "plot"
                /\ UNCHANGED <<response, fault>>
    /\ UNCHANGED <<date_strs, i, target_time, plot_divs, data, parsed, calls>>

\* The figure is built and returned; index() appends it.
Plot ==
    /\ pc = "plot"
    /\ steps' = Append(steps, [op |-> "plot", k |-> i])
    /\ ReturnFragment(ChartFragment(target_time, satellites))
    /\ UNCHANGED <<date_strs, target_time, data, parsed, satellites,
                   response, fault, calls>>

Next ==
    \/ Skip
    \/ Reject
    \/ Accept
    \/ Render
    \/ \E resp \in LoginOutcomes : Login(resp)
    \/ \E resp \in GetOutcomes : Get(resp)
    \/ Parse
    \/ Derive
    \/ Plot

Spec == Init /\ [][Next]_vars

(* ------------------------- properties ----------------------------------- *)
Positions == 1..Len(date_strs)

NonEmptyAt(p) == date_strs[p] # <<>>

\* What strptime makes of each value a request may carry.
Parsed == [s \in DateInputs |-> strptime(s)]

InvalidAt(p) == NonEmptyAt(p) /\ Parsed[date_strs[p]].raised

HasInvalid == \E p \in Positions : InvalidAt(p)

FirstInvalid == CHOOSE p \in Positions : InvalidAt(p) /\ \A q \in 1..(p - 1) : ~InvalidAt(q)

\* Number of non-empty values at positions before p.
NonEmptyBefore(p) == Cardinality({q \in Positions : q < p /\ NonEmptyAt(q)})

\* Position of the n-th non-empty value.
NthNonEmpty(n) == CHOOSE p \in Positions : NonEmptyAt(p) /\ NonEmptyBefore(p) = n - 1

CallIds == 1..Len(calls)

\* Some outbound call ended with an exception of the transport.
TransportRaised ==
    \E n \in CallIds : \E j \in 1..Len(calls[n].net) : calls[n].net[j].raised

\* The lines are whole records whose element lines the reader accepts.
WellFormedLines(lines) ==
    /\ (Len(lines) % 3) = 0
    /\ \A r \in 1..(Len(lines) \div 3) :
           ~get_satellite(lines[3 * r - 1], lines[3 * r]).raised

\* The record loop has run on the current data.
ParseActed ==
    \/ pc \in {"derive", "plot"}
    \/ pc = "Fault" /\ fault \in {"IndexError", "ValueError"}

\* C1 as stated, for requests whose outbound calls all return: a request
\* with an unparsable non-empty value ends with the JSON error object.
C1_AnyInvalidGivesError ==
    (pc \in Terminal /\ HasInvalid /\ ~TransportRaised) => response = JsonError

\* C1 amended: a request with an unparsable non-empty value never renders a
\* page; it ends with the JSON error object at the first unparsable value,
\* unless a valid value before that one ended the request with an exception
\* nobody catches.
C1_InvalidNeverRenders ==
    (pc \in Terminal /\ HasInvalid) =>
        /\ pc # "Rendered"
        /\ response.kind # "html"
        /\ response.plot_divs = <<>>
        /\ pc = "Error" =>
               /\ i = FirstInvalid
               /\ response.kind = "json"
               /\ response.error = "Invalid date format. Please use 'YYYY-MM-DD HH:MM:SS'."
        /\ pc = "Fault" => i < FirstInvalid /\ fault # "none"
        /\ fault = "none" => pc = "Error"

\* A request rejected at an unparsable value that has valid values before
\* and after it.
C1_Witness ==
    /\ pc = "Error"
    /\ Len(plot_divs) >= 1
    /\ i < Len(date_strs)
    /\ NonEmptyAt(Len(date_strs)) /\ ~InvalidAt(Len(date_strs))

\* Every value is empty or parses.
AllValid == \A p \in Positions : ~InvalidAt(p)

\* Every fetch so far returned the sentinel or well-formed lines.
FetchesWellFormed ==
    /\ ~TransportRaised
    /\ \A n \in CallIds :
           calls[n].returned =>
               (calls[n].result.none \/ WellFormedLines(calls[n].result.lines))

\* C2: when every non-empty value parses and every fetch returns the
\* sentinel or a well-formed payload, the request renders a page with one
\* fragment per non-empty value, the k-th fragment being the one built for
\* the k-th non-empty value.
C2_OnePanelPerValue ==
    (pc \in Terminal /\ AllValid /\ FetchesWellFormed) =>
        /\ pc = "Rendered"
        /\ response.kind = "html"
        /\ Len(response.plot_divs) = NonEmptyBefore(Len(date_strs) + 1)
        /\ Len(calls) = Len(response.plot_divs)
        /\ \A k \in 1..Len(response.plot_divs) :
               LET p    == NthNonEmpty(k)
                   frag == response.plot_divs[k]
                   c    == calls[k]
               IN  /\ c.k = p
                   /\ c.returned
                   /\ c.url_time = strftime_url(Parsed[date_strs[p]].value)
                   /\ IF c.result.none
                      THEN frag.html = "<p>No data available for the selected date.</p>"
                      ELSE /\ frag.html # "<p>No data available for the selected date.</p>"
                           /\ frag.title = strftime_title(Parsed[date_strs[p]].value)
                           /\ frag.samples = Len(c.result.lines) \div 3

\* A rendered page of two different fragments for a request that also
\* carried an empty value.
C2_Witness ==
    /\ pc = "Rendered"
    /\ Len(response.plot_divs) = 2
    /\ response.plot_divs[1] # response.plot_divs[2]
    /\ \E p \in Positions : ~NonEmptyAt(p)

\* C3: in every invocation of get_space_track_data the login POST comes
\* first, the data GET is issued only after a login answered 200, and the
\* invocation returns the split body exactly when both answered 200, the
\* sentinel for every other pair of status codes.
C3_LoginThenGet ==
    \A n \in CallIds :
        LET net == calls[n].net
        IN  /\ Len(net) <= 2
            /\ Len(net) >= 1 => net[1].op = "POST"
            /\ Len(net) = 2 =>
                   /\ net[2].op = "GET"
                   /\ ~net[1].raised /\ net[1].status_code = 200
            /\ calls[n].returned =>
                   /\ Len(net) >= 1 /\ \A j \in 1..Len(net) : ~net[j].raised
                   /\ ~calls[n].result.none <=>
                          (Len(net) = 2 /\ net[1].status_code = 200
                                        /\ net[2].status_code = 200)
                   /\ ~calls[n].result.none =>
                          calls[n].result.lines = splitlines(net[2].text)
                   /\ calls[n].result.none => calls[n].result.lines = <<>>
            /\ (Len(net) = 2 /\ ~net[2].raised) => calls[n].returned
            /\ (Len(net) = 1 /\ ~net[1].raised /\ net[1].status_code # 200)
                   => calls[n].returned

\* One invocation returned lines after two calls answered 200, another
\* returned the sentinel after a data GET that did not.
C3_Witness ==
    /\ \E n \in CallIds :
           /\ calls[n].returned /\ ~calls[n].result.none
           /\ Len(calls[n].result.lines) = 6
    /\ \E n \in CallIds :
           /\ calls[n].returned /\ calls[n].result.none
           /\ Len(calls[n].net) = 2

\* C4: get_space_track_data never raises: whatever happens to the login
\* call and to the data call, a failure of the transport included, the
\* invocation returns, and a failure shows as the placeholder fragment.
C4_FetcherNeverRaises ==
    \A n \in CallIds :
        \A j \in 1..Len(calls[n].net) :
            calls[n].net[j].raised =>
                /\ pc # "Fault"
                /\ calls[n].returned /\ calls[n].result.none
                /\ Len(plot_divs) >= n
                /\ plot_divs[n].html = "<p>No data available for the selected date.</p>"

\* C5: when get_space_track_data returns the sentinel for a value, that
\* value's fragment is the placeholder text, no parse, derive or plot step
\* is performed for it, and the request goes on to the values after it.
C5_SentinelGivesPlaceholder ==
    \A n \in CallIds :
        (calls[n].returned /\ calls[n].result.none) =>
            /\ Len(plot_divs) >= n
            /\ plot_divs[n].html = "<p>No data available for the selected date.</p>"
            /\ plot_divs[n].samples = 0
            /\ \A a \in 1..Len(steps) : steps[a].k # calls[n].k
            /\ i > calls[n].k
            /\ pc \in {"Error", "Fault"} => i # calls[n].k

\* A placeholder fragment followed by a chart fragment in one request.
C5_Witness ==
    /\ Len(plot_divs) = 2
    /\ calls[1].returned /\ calls[1].result.none
    /\ plot_divs[1].html = "<p>No data available for the selected date.</p>"
    /\ plot_divs[2].samples = 2

\* C6: for data whose length is a multiple of 3 the record loop yields
\* three lists of len(data)/3 entries: the name lines without their first
\* two characters, the element lines 1 and the element lines 2, in the
\* order of the records.
C6_TripletsParsed ==
    (ParseActed /\ (Len(data) % 3) = 0) =>
        /\ ~parsed.raised
        /\ fault # "IndexError"
        /\ Len(parsed.obj_names) = Len(data) \div 3
        /\ Len(parsed.tle_line1) = Len(data) \div 3
        /\ Len(parsed.tle_line2) = Len(data) \div 3
        /\ \A r \in 1..(Len(data) \div 3) :
               LET line == data[3 * (r - 1) + 1]
               IN  /\ Len(line) >= 2 =>
                          SubSeq(line, 1, 2) \o parsed.obj_names[r] = line
                   /\ Len(line) < 2 => parsed.obj_names[r] = <<>>
                   /\ parsed.tle_line1[r] = data[3 * (r - 1) + 2]
                   /\ parsed.tle_line2[r] = data[3 * (r - 1) + 3]

\* Two records parsed from six lines.
C6_Witness ==
    /\ pc = "plot"
    /\ Len(data) = 6
    /\ parsed.obj_names = <<<<"A">>, <<"B">>>>

\* C7 as stated: for data whose length is not a multiple of 3 the record
\* loop does not fail and yields floor(len(data)/3) records.
C7_PartialRecordDropped ==
    (ParseActed /\ (Len(data) % 3) # 0) =>
        /\ ~parsed.raised
        /\ pc # "Fault"
        /\ Len(parsed.obj_names) = Len(data) \div 3

\* C7 amended: for data whose length is not a multiple of 3 the record loop
\* raises IndexError at the trailing partial record, after the
\* floor(len(data)/3) whole records; nobody catches it, so the request ends
\* with that exception and no fragment is built for the value.
C7_PartialRecordRaises ==
    (ParseActed /\ (Len(data) % 3) # 0) =>
        /\ parsed.raised
        /\ pc = "Fault" /\ fault = "IndexError"
        /\ response.kind = "fault"
        /\ Len(parsed.tle_line2) = Len(data) \div 3
        /\ Len(parsed.obj_names) = (Len(data) \div 3) + 1
        /\ Len(plot_divs) = Len(calls) - 1
        /\ \A a \in 1..Len(steps) : steps[a].k = i => steps[a].op = "parse"

\* Seven lines: two whole records read, then the exception.
C7_Witness ==
    /\ pc = "Fault" /\ fault = "IndexError"
    /\ Len(data) = 7
    /\ Len(parsed.tle_line2) = 2

\* Some step of the handler can be taken: the loop of index() has a value
\* to skip, reject or accept or has run out of values, or generate_plots
\* is at one of its steps.
StepPossible ==
    \/ pc = "index" /\ i \in Positions /\ ~NonEmptyAt(i)
    \/ pc = "index" /\ i \in Positions /\ InvalidAt(i)
    \/ pc = "index" /\ i \in Positions /\ NonEmptyAt(i) /\ ~InvalidAt(i)
    \/ pc = "index" /\ i > Len(date_strs)
    \/ pc = "login" /\ LoginOutcomes # {}
    \/ pc = "get" /\ GetOutcomes # {}
    \/ pc \in {"parse", "derive", "plot"}

\* C8 as stated: a request whose outbound calls return ends as Error or as
\* Rendered, never otherwise.
C8_TwoTerminalStates ==
    ~TransportRaised => pc # "Fault"

\* C8 amended: a request whose outbound calls return ends in one of three
\* ways: Error (JSON error object at an unparsable value), Rendered (every
\* value processed, each fragment a chart or the placeholder), or an
\* exception nobody catches, raised by the record loop on a line count that
\* is no multiple of 3 or by the element reader on lines it rejects; every
\* other state has a next step.
C8_ThreeTerminalStates ==
    /\ pc \in {"index", "login", "get", "parse", "derive", "plot"} \cup Terminal
    /\ pc \notin Terminal => (StepPossible /\ response.kind = "none")
    /\ pc \in Terminal => (~StepPossible /\ ~ENABLED Next)
    /\ pc = "Error" =>
           /\ InvalidAt(i)
           /\ response.kind = "json"
           /\ response.error = "Invalid date format. Please use 'YYYY-MM-DD HH:MM:SS'."
    /\ pc = "Rendered" =>
           /\ i = Len(date_strs) + 1
           /\ response.kind = "html"
           /\ response.plot_divs = plot_divs
           /\ Len(plot_divs) = NonEmptyBefore(i)
           /\ \A k \in 1..Len(plot_divs) :
                  \/ plot_divs[k].html = "<p>No data available for the selected date.</p>"
                  \/ plot_divs[k].html = "<div>figure</div>"
    /\ (pc = "Fault" /\ ~TransportRaised) =>
           /\ response.kind = "fault"
           /\ fault \in {"IndexError", "ValueError"}
           /\ fault = "IndexError" <=> (Len(data) % 3) # 0
           /\ ~WellFormedLines(data)

\* A request of two values that ended with the exception of the record
\* loop after a first fragment, all outbound calls having returned.
C8_Witness ==
    /\ pc = "Fault" /\ fault = "IndexError"
    /\ ~TransportRaised
    /\ Len(plot_divs) = 1

\* C9 as stated: every invocation of get_space_track_data that returns has
\* made two outbound calls.
C9_TwoCallsPerInvocation ==
    \A n \in CallIds : calls[n].returned => Len(calls[n].net) = 2

\* C9 amended: every invocation makes one login POST and, only when the
\* login answered 200, one data GET after it; it makes one call when the
\* login is refused, two otherwise, and repeats none.
C9_OneOrTwoCalls ==
    \A n \in CallIds :
        LET net == calls[n].net
        IN  /\ Cardinality({j \in 1..Len(net) : net[j].op = "POST"}) <= 1
            /\ Cardinality({j \in 1..Len(net) : net[j].op = "GET"}) <= 1
            /\ \A j \in 1..Len(net) : net[j].op = "GET" => j = 2
            /\ calls[n].returned =>
                   /\ net[1].op = "POST"
                   /\ Len(net) = (IF net[1].status_code = 200 THEN 2 ELSE 1)
            /\ n < Len(calls) => calls[n].returned

\* An invocation that returned after the login call alone.
C9_Witness ==
    \E n \in CallIds :
        /\ calls[n].returned
        /\ Len(calls[n].net) = 1
        /\ calls[n].net[1].status_code = 401

\* C10 as stated, for requests whose outbound calls all return: at the end
\* of a request get_space_track_data has been invoked once for each
\* non-empty value before the first unparsable one, or once for each
\* non-empty value when all of them parse.
C10_FetchCountAsStated ==
    (pc \in Terminal /\ ~TransportRaised) =>
        Len(calls) = (IF HasInvalid THEN NonEmptyBefore(FirstInvalid)
                      ELSE NonEmptyBefore(Len(date_strs) + 1))

\* C10 amended: values are validated one by one as they are reached; the
\* n-th invocation of get_space_track_data is for the n-th non-empty value,
\* which lies before the first unparsable one, and each invocation and its
\* fragment are finished before the next starts. A request that ends as
\* Error at position k has invoked it once for each non-empty value before
\* k, a rendered request once for each non-empty value, and a request ended
\* by an exception nobody catches invokes it for no value after the one
\* that raised.
C10_LazySequential ==
    /\ \A n \in CallIds :
           /\ calls[n].k = NthNonEmpty(n)
           /\ calls[n].k <= i
           /\ ~InvalidAt(calls[n].k)
           /\ HasInvalid => calls[n].k < FirstInvalid
           /\ n < Len(calls) => (calls[n].returned /\ Len(plot_divs) >= n
                                 /\ calls[n].k < calls[n + 1].k)
    /\ Len(plot_divs) \in {Len(calls), Len(calls) - 1}
    /\ \A a \in 1..Len(steps) : \A b \in a..Len(steps) : steps[a].k <= steps[b].k
    /\ pc = "Error" =>
           /\ i = FirstInvalid
           /\ Len(calls) = NonEmptyBefore(i)
           /\ Len(plot_divs) = Len(calls)
    /\ pc = "Rendered" =>
           /\ Len(calls) = NonEmptyBefore(Len(date_strs) + 1)
           /\ Len(plot_divs) = Len(calls)
    /\ pc = "Fault" =>
           /\ Len(calls) = NonEmptyBefore(i) + 1
           /\ calls[Len(calls)].k = i

\* A request rejected at its third value after two invocations, the first
\* value having been fetched, parsed and plotted.
C10_Witness ==
    /\ pc = "Error"
    /\ i = 3
    /\ Len(calls) = 2
    /\ Len(steps) >= 3

====
